---- MODULE Spec2Model ----
(***************************************************************************)
(* Organizational consistency manager of crm-megacrane: the team           *)
(* controller (createTeam, updateTeam, deleteTeam) and the user            *)
(* controller's transferUser, over the Team and User collections.          *)
(*                                                                         *)
(* Every identifier is an integer so that references compare; NULL is the  *)
(* JavaScript null/undefined of a reference field.  A team's members are   *)
(* kept as a set: the handlers only test membership, filter one id out,    *)
(* push an absent id, and write each listed user independently.  Team      *)
(* names are left to the caller and always fresh.                          *)
(***************************************************************************)
EXTENDS Integers, FiniteSets, Sequences, TLC

VARIABLES teams, users, nextId, last, requests

\* the transferUser requests that run interleaved: each one's parameters,
\* what it has read, how far it has come and its response
VARIABLES transfers

\* the Quotation collection and its controller: the stored documents, the
\* next _id, the request log, the requests handled, the create requests in
\* flight, the calculator under test, the direction toFixed(2) takes on an
\* amount halfway between two cents, and the history of the numbers that
\* create has generated, in creation order
VARIABLES quotations, nextQid, qlast, qrequests, inflight, calc, tieUp, generated

\* the BusinessAccount collection and its controller: the stored documents,
\* the next _id, the request log and the requests handled
VARIABLES accounts, nextAid, alast, arequests

teamVars == <<teams, users, nextId, last, requests, transfers>>

quoteVars == <<quotations, nextQid, qlast, qrequests, inflight, calc, tieUp, generated>>

accountVars == <<accounts, nextAid, alast, arequests>>

vars == <<teams, users, nextId, last, requests, transfers,
          quotations, nextQid, qlast, qrequests, inflight, calc, tieUp, generated,
          accounts, nextAid, alast, arequests>>

NULL == 0

\* bound on the number of Team documents ever created (Team._id is never reused)
MaxTeams == 2

TeamIds == 1..MaxTeams

\* bound on the number of requests handled, one at a time
MaxRequests == 3

u1 == 11
u2 == 12
\* an id that matches no User document
NoSuchUser == 19
Users == {u1, u2}
UserIds == Users \cup {NoSuchUser}

d1 == 21
d2 == 22
\* an id that matches no Department document
NoSuchDepartment == 29
Departments == {d1, d2}

z1 == 31
Zones == {z1}

\* User.role, models/User.js; no modelled request changes it
Role == (u1 :> "Team Leader") @@ (u2 :> "Employee")

\* Department.zone: d1 lies in zone z1, d2 has no zone
DepartmentZone == (d1 :> z1) @@ (d2 :> NULL)

\* a User document's default references, models/User.js
NewUser == [team |-> NULL, department |-> NULL, zone |-> NULL]

\* the idle value of the request log
NoTeam == [department |-> NULL, teamLeader |-> NULL, members |-> {}]

\* the request log: the last request handled (req.params.id, req.body), the
\* status it answered with, and what the handler read before it wrote
\* (originalTeamId: user.team in transferUser; originalTeam: the Team
\* document found by updateTeam, deleteTeam and transferUser, NoTeam if none)
NoRequest ==
  [op |-> "none", status |-> 0, id |-> NULL, department |-> NULL,
   teamLeader |-> NULL, members |-> {}, team |-> NULL, zone |-> NULL,
   originalTeamId |-> NULL, originalTeam |-> NoTeam]

\* no team, every user unassigned, no request handled
TeamsIdle ==
  /\ teams = << >>
  /\ users = [u \in Users |-> NewUser]
  /\ nextId = 1
  /\ last = NoRequest
  /\ requests = 0
  /\ transfers = << >>

\* no quotation request handled yet
NoQRequest == [op |-> "none", status |-> 0, id |-> 0]

\* no quotation, no quotation request handled or in flight
QuotationsIdle ==
  /\ quotations = << >>
  /\ nextQid = 1
  /\ qlast = NoQRequest
  /\ qrequests = 0
  /\ inflight = << >>
  /\ calc = << >>
  /\ generated = << >>

\* no account request handled yet
NoARequest == [op |-> "none", status |-> 0, id |-> 0]

\* no business account, no account request handled
AccountsIdle ==
  /\ accounts = << >>
  /\ nextAid = 1
  /\ alast = NoARequest
  /\ arequests = 0

Init ==
  /\ TeamsIdle
  /\ AccountsIdle
  /\ QuotationsIdle
  /\ tieUp = TRUE

\* User.findByIdAndUpdate(userId, {team, department, zone}); a missing id or
\* a missing document changes nothing
updateUserTeamAndDepartment(us, userId, teamId, departmentId, zoneId) ==
  IF userId \in DOMAIN us
  THEN [us EXCEPT ![userId] = [team |-> teamId, department |-> departmentId, zone |-> zoneId]]
  ELSE us

\* the loop `for (const memberId of members) await updateUser...(memberId, ...)`
updateMembers(us, memberIds, teamId, departmentId, zoneId) ==
  [u \in DOMAIN us |->
     IF u \in memberIds
     THEN [team |-> teamId, department |-> departmentId, zone |-> zoneId]
     ELSE us[u]]

\* Team.findOne({ teamLeader: leaderId, _id: { $ne: exceptId } })
existingTeamWithLeader(ts, leaderId, exceptId) ==
  \E t \in DOMAIN ts : t # exceptId /\ ts[t].teamLeader = leaderId

\* mutant: the collection carries no constraint on teamLeader
teamLeaderIndexAcceptsAny(ts, teamId, leaderId) == TRUE

\* the Team collection's unique constraint on teamLeader: a write that
\* would make a user lead two teams fails with a duplicate-key error
teamLeaderIndexAccepts(ts, teamId, leaderId) ==
  leaderId = NULL \/ \A t \in DOMAIN ts \ {teamId} : ts[t].teamLeader # leaderId

Response(status, ts, us) == [status |-> status, teams |-> ts, users |-> us]

\* mutant: the role of the named leader is not looked at
notTeamLeaderRoleNever(userId) == FALSE

\* leader.role !== 'Team Leader'
notTeamLeaderRole(userId) == Role[userId] # "Team Leader"

\* mutant: the conflict is answered 409
leaderConflictResponse409 == Response(409, teams, users)

\* res.status(400).json({ message: 'This user is already a Team Leader for another team.' })
leaderConflictResponse == Response(400, teams, users)

\* exports.createTeam
createTeamResponse(newId, department, teamLeader, members) ==
  IF department \notin Departments THEN Response(400, teams, users)
  ELSE IF teamLeader # NULL /\ teamLeader \notin Users THEN Response(400, teams, users)
  ELSE IF teamLeader # NULL /\ notTeamLeaderRole(teamLeader) THEN Response(400, teams, users)
  ELSE IF teamLeader # NULL /\ existingTeamWithLeader(teams, teamLeader, NULL)
       THEN leaderConflictResponse
  ELSE IF ~teamLeaderIndexAccepts(teams, newId, teamLeader) THEN Response(400, teams, users)
  ELSE
    LET zoneId == DepartmentZone[department]
        newTeams == teams @@ (newId :> [department |-> department,
                                        teamLeader |-> teamLeader,
                                        members |-> members])
        afterLeader == IF teamLeader # NULL
                       THEN updateUserTeamAndDepartment(users, teamLeader, newId, department, zoneId)
                       ELSE users
    IN Response(201, newTeams, updateMembers(afterLeader, members, newId, department, zoneId))

createTeam(department, teamLeader, members) ==
  /\ requests < MaxRequests
  /\ requests' = requests + 1
  /\ nextId <= MaxTeams
  /\ LET r == createTeamResponse(nextId, department, teamLeader, members)
     IN /\ teams' = r.teams
        /\ users' = r.users
        /\ nextId' = IF r.status = 201 THEN nextId + 1 ELSE nextId
        /\ UNCHANGED quoteVars
        /\ UNCHANGED accountVars
        /\ UNCHANGED transfers
        /\ last' = [NoRequest EXCEPT !.op = "createTeam", !.status = r.status,
                      !.id = IF r.status = 201 THEN nextId ELSE NULL,
                      !.department = department, !.teamLeader = teamLeader,
                      !.members = members]

\* Team.findById
findTeam(ts, teamId) == IF teamId \in DOMAIN ts THEN ts[teamId] ELSE NoTeam

\* User.findById(id)?.zone
zoneOfUser(us, userId) == IF userId \in DOMAIN us THEN us[userId].zone ELSE NULL

\* updateTeam, line 151: the zone an updated team hands to its users
updateTeamZone(us, currentLeaderId, newLeaderId) ==
  IF zoneOfUser(us, currentLeaderId) # NULL
  THEN zoneOfUser(us, currentLeaderId)
  ELSE zoneOfUser(us, newLeaderId)

\* mutant: a removed member keeps its references
unassignRemovedNobody(us, originalMemberIds, newMemberIds) == us

\* updateTeam, lines 163-167: old members missing from the new list are unassigned
unassignRemoved(us, originalMemberIds, newMemberIds) ==
  updateMembers(us, originalMemberIds \ newMemberIds, NULL, NULL, NULL)

\* updateTeam, lines 169-174: a listed member is written unless its team and
\* department already agree with the team
resyncMembers(us, newMemberIds, teamId, departmentId, zoneId) ==
  updateMembers(us,
    {m \in newMemberIds : m \in DOMAIN us /\
       (us[m].team # teamId \/ us[m].department # departmentId)},
    teamId, departmentId, zoneId)

\* exports.updateTeam
updateTeamResponse(teamId, department, teamLeader, members) ==
  IF teamId \notin DOMAIN teams THEN Response(404, teams, users)
  ELSE
    LET originalTeam == teams[teamId]
        currentLeaderId == originalTeam.teamLeader
        newLeaderId == teamLeader
    IN
    IF department # NULL /\ department # originalTeam.department /\ department \notin Departments
    THEN Response(400, teams, users)
    ELSE IF newLeaderId # NULL /\ newLeaderId # currentLeaderId /\ newLeaderId \notin Users
    THEN Response(400, teams, users)
    ELSE IF newLeaderId # NULL /\ newLeaderId # currentLeaderId /\ notTeamLeaderRole(newLeaderId)
    THEN Response(400, teams, users)
    ELSE IF newLeaderId # NULL /\ newLeaderId # currentLeaderId
            /\ existingTeamWithLeader(teams, newLeaderId, teamId)
    THEN leaderConflictResponse
    ELSE IF ~teamLeaderIndexAccepts(teams, teamId, newLeaderId) THEN Response(400, teams, users)
    ELSE
      LET resolvedDepartmentId == IF department # NULL THEN department ELSE originalTeam.department
          updatedTeams == [teams EXCEPT ![teamId] =
                             [department |-> resolvedDepartmentId,
                              teamLeader |-> newLeaderId,
                              members |-> members]]
          resolvedZoneId == updateTeamZone(users, currentLeaderId, newLeaderId)
          afterOldLeader == IF currentLeaderId # NULL /\ currentLeaderId # newLeaderId
                            THEN updateUserTeamAndDepartment(users, currentLeaderId, NULL, NULL, NULL)
                            ELSE users
          afterNewLeader == IF newLeaderId # NULL
                            THEN updateUserTeamAndDepartment(afterOldLeader, newLeaderId, teamId,
                                                             resolvedDepartmentId, resolvedZoneId)
                            ELSE afterOldLeader
          afterRemoved == unassignRemoved(afterNewLeader, originalTeam.members, members)
      IN Response(200, updatedTeams,
                  resyncMembers(afterRemoved, members, teamId, resolvedDepartmentId, resolvedZoneId))

updateTeam(teamId, department, teamLeader, members) ==
  /\ requests < MaxRequests
  /\ requests' = requests + 1
  /\ LET r == updateTeamResponse(teamId, department, teamLeader, members)
     IN /\ teams' = r.teams
        /\ users' = r.users
        /\ nextId' = nextId
        /\ UNCHANGED quoteVars
        /\ UNCHANGED accountVars
        /\ UNCHANGED transfers
        /\ last' = [NoRequest EXCEPT !.op = "updateTeam", !.status = r.status,
                      !.id = teamId, !.department = department,
                      !.teamLeader = teamLeader, !.members = members,
                      !.originalTeam = findTeam(teams, teamId)]

\* mutant: only the members are unassigned, the leader keeps its references
deleteTeamResponseMembersOnly(teamId) ==
  IF teamId \notin DOMAIN teams THEN Response(404, teams, users)
  ELSE Response(200, [t \in DOMAIN teams \ {teamId} |-> teams[t]],
                updateMembers(users, teams[teamId].members, NULL, NULL, NULL))

\* exports.deleteTeam
deleteTeamResponse(teamId) ==
  IF teamId \notin DOMAIN teams THEN Response(404, teams, users)
  ELSE
    LET deletedTeam == teams[teamId]
        remaining == [t \in DOMAIN teams \ {teamId} |-> teams[t]]
        afterLeader == IF deletedTeam.teamLeader # NULL
                       THEN updateUserTeamAndDepartment(users, deletedTeam.teamLeader, NULL, NULL, NULL)
                       ELSE users
    IN Response(200, remaining, updateMembers(afterLeader, deletedTeam.members, NULL, NULL, NULL))

deleteTeam(teamId) ==
  /\ requests < MaxRequests
  /\ requests' = requests + 1
  /\ LET r == deleteTeamResponse(teamId)
     IN /\ teams' = r.teams
        /\ users' = r.users
        /\ nextId' = nextId
        /\ UNCHANGED quoteVars
        /\ UNCHANGED accountVars
        /\ UNCHANGED transfers
        /\ last' = [NoRequest EXCEPT !.op = "deleteTeam", !.status = r.status,
                      !.id = teamId, !.originalTeam = findTeam(teams, teamId)]

\* mutant: the old team forgets the leadership but keeps the member
leaveOriginalTeamLeaderOnly(ts, userId, originalTeamId, newTeamId) ==
  IF originalTeamId # NULL /\ originalTeamId # newTeamId /\ originalTeamId \in DOMAIN ts
  THEN [ts EXCEPT ![originalTeamId] =
          [department |-> @.department,
           teamLeader |-> IF @.teamLeader = userId THEN NULL ELSE @.teamLeader,
           members |-> @.members]]
  ELSE ts

\* transferUser, lines 139-148: the user leaves the team its document names
leaveOriginalTeam(ts, userId, originalTeamId, newTeamId) ==
  IF originalTeamId # NULL /\ originalTeamId # newTeamId /\ originalTeamId \in DOMAIN ts
  THEN [ts EXCEPT ![originalTeamId] =
          [department |-> @.department,
           teamLeader |-> IF @.teamLeader = userId THEN NULL ELSE @.teamLeader,
           members |-> @.members \ {userId}]]
  ELSE ts

\* mutant: the user is not pushed onto the target team's members
joinNewTeamNoPush(newTeam, userId) ==
  [department |-> newTeam.department,
   teamLeader |-> IF Role[userId] = "Team Leader" /\ newTeam.teamLeader = NULL
                  THEN userId ELSE newTeam.teamLeader,
   members |-> newTeam.members]

\* transferUser, lines 157-163: the target team as it is handed to save()
joinNewTeam(newTeam, userId) ==
  [department |-> newTeam.department,
   teamLeader |-> IF Role[userId] = "Team Leader" /\ newTeam.teamLeader = NULL
                  THEN userId ELSE newTeam.teamLeader,
   members |-> newTeam.members \cup {userId}]

\* exports.transferUser
transferUserResponse(userId, newDepartmentId, newTeamId, newZoneId) ==
  IF userId \notin DOMAIN users THEN Response(404, teams, users)
  ELSE
    LET originalTeamId == users[userId].team
        afterLeave == leaveOriginalTeam(teams, userId, originalTeamId, newTeamId)
    IN
    IF newTeamId = NULL
    THEN Response(200, afterLeave,
                  updateUserTeamAndDepartment(users, userId, NULL, newDepartmentId, newZoneId))
    ELSE IF newTeamId \notin DOMAIN afterLeave THEN Response(400, afterLeave, users)
    ELSE
      LET newTeam == joinNewTeam(afterLeave[newTeamId], userId)
      IN IF ~teamLeaderIndexAccepts(afterLeave, newTeamId, newTeam.teamLeader)
         THEN Response(500, afterLeave, users)
         ELSE Response(200, [afterLeave EXCEPT ![newTeamId] = newTeam],
                       updateUserTeamAndDepartment(users, userId, newTeamId,
                                                   newTeam.department, newZoneId))

transferUser(userId, newDepartmentId, newTeamId, newZoneId) ==
  /\ requests < MaxRequests
  /\ requests' = requests + 1
  /\ LET r == transferUserResponse(userId, newDepartmentId, newTeamId, newZoneId)
     IN /\ teams' = r.teams
        /\ users' = r.users
        /\ nextId' = nextId
        /\ UNCHANGED quoteVars
        /\ UNCHANGED accountVars
        /\ UNCHANGED transfers
        /\ last' = [NoRequest EXCEPT !.op = "transferUser", !.status = r.status,
                      !.id = userId, !.department = newDepartmentId,
                      !.team = newTeamId, !.zone = newZoneId,
                      !.originalTeamId = IF userId \in DOMAIN users THEN users[userId].team ELSE NULL,
                      !.originalTeam = IF userId \in DOMAIN users
                                       THEN findTeam(teams, users[userId].team) ELSE NoTeam]

Next ==
  \/ \E department \in Departments \cup {NoSuchDepartment},
        teamLeader \in UserIds \cup {NULL},
        members \in SUBSET Users :
          createTeam(department, teamLeader, members)
  \/ \E teamId \in TeamIds,
        department \in Departments \cup {NoSuchDepartment, NULL},
        teamLeader \in UserIds \cup {NULL},
        members \in SUBSET Users :
          updateTeam(teamId, department, teamLeader, members)
  \/ \E teamId \in TeamIds : deleteTeam(teamId)
  \/ \E userId \in UserIds,
        newDepartmentId \in Departments \cup {NULL},
        newTeamId \in TeamIds \cup {NULL},
        newZoneId \in Zones \cup {NULL} :
          transferUser(userId, newDepartmentId, newTeamId, newZoneId)

Spec == Init /\ [][Next]_vars

(***************************************************************************)
(* transferUser as the persistence calls it is made of.  Each request      *)
(* reads the user (line 131), saves the original team (lines 140-146),     *)
(* saves the new team (lines 153-164) and writes the user (line 168), and  *)
(* other requests run between these calls.  A team's findById and save     *)
(* are taken as one call.                                                  *)
(***************************************************************************)

\* the transferUser requests that run interleaved
TransferProcs == {1, 2}

\* the request of process p moves on to pc with these fields changed
transferStep(p, request) ==
  transfers' = [q \in DOMAIN transfers \cup {p} |-> IF q = p THEN request ELSE transfers[q]]

\* transferUser, lines 128-136: the parameters, User.findById and the team
\* the user document names
transferRead(p, userId, newDepartmentId, newTeamId, newZoneId) ==
  /\ p \notin DOMAIN transfers
  /\ transferStep(p, [pc |-> IF userId \in DOMAIN users THEN "leave" ELSE "done",
                      status |-> IF userId \in DOMAIN users THEN 0 ELSE 404,
                      userId |-> userId,
                      newDepartmentId |-> newDepartmentId,
                      newTeamId |-> newTeamId,
                      newZoneId |-> newZoneId,
                      originalTeamId |-> IF userId \in DOMAIN users
                                         THEN users[userId].team ELSE NULL,
                      resolvedDepartmentId |-> newDepartmentId])
  /\ UNCHANGED <<teams, users, nextId, last, requests>>
  /\ UNCHANGED quoteVars
  /\ UNCHANGED accountVars

\* transferUser, lines 139-148: the original team is saved without the user
transferLeave(p) ==
  /\ p \in DOMAIN transfers
  /\ transfers[p].pc = "leave"
  /\ teams' = leaveOriginalTeam(teams, transfers[p].userId, transfers[p].originalTeamId,
                                transfers[p].newTeamId)
  /\ transferStep(p, [transfers[p] EXCEPT !.pc = "join"])
  /\ UNCHANGED <<users, nextId, last, requests>>
  /\ UNCHANGED quoteVars
  /\ UNCHANGED accountVars

\* mutant: joining a team takes the user off every other team's members
transferJoinExclusive(p) ==
  /\ p \in DOMAIN transfers
  /\ transfers[p].pc = "join"
  /\ LET request == transfers[p]
     IN IF request.newTeamId = NULL
        THEN /\ transferStep(p, [request EXCEPT !.pc = "write"])
             /\ UNCHANGED teams
        ELSE IF request.newTeamId \notin DOMAIN teams
        THEN /\ transferStep(p, [request EXCEPT !.pc = "done", !.status = 400])
             /\ UNCHANGED teams
        ELSE LET newTeam == joinNewTeam(teams[request.newTeamId], request.userId)
             IN IF ~teamLeaderIndexAccepts(teams, request.newTeamId, newTeam.teamLeader)
                THEN /\ transferStep(p, [request EXCEPT !.pc = "done", !.status = 500])
                     /\ UNCHANGED teams
                ELSE /\ teams' = [t \in DOMAIN teams |->
                                    IF t = request.newTeamId THEN newTeam
                                    ELSE [teams[t] EXCEPT !.members = @ \ {request.userId}]]
                     /\ transferStep(p, [request EXCEPT
                                           !.pc = "write",
                                           !.resolvedDepartmentId = newTeam.department])
  /\ UNCHANGED <<users, nextId, last, requests>>
  /\ UNCHANGED quoteVars
  /\ UNCHANGED accountVars

\* transferUser, lines 151-165: the new team is found and saved with the user
transferJoin(p) ==
  /\ p \in DOMAIN transfers
  /\ transfers[p].pc = "join"
  /\ LET request == transfers[p]
     IN IF request.newTeamId = NULL
        THEN /\ transferStep(p, [request EXCEPT !.pc = "write"])
             /\ UNCHANGED teams
        ELSE IF request.newTeamId \notin DOMAIN teams
        THEN /\ transferStep(p, [request EXCEPT !.pc = "done", !.status = 400])
             /\ UNCHANGED teams
        ELSE LET newTeam == joinNewTeam(teams[request.newTeamId], request.userId)
             IN IF ~teamLeaderIndexAccepts(teams, request.newTeamId, newTeam.teamLeader)
                THEN /\ transferStep(p, [request EXCEPT !.pc = "done", !.status = 500])
                     /\ UNCHANGED teams
                ELSE /\ teams' = [teams EXCEPT ![request.newTeamId] = newTeam]
                     /\ transferStep(p, [request EXCEPT
                                           !.pc = "write",
                                           !.resolvedDepartmentId = newTeam.department])
  /\ UNCHANGED <<users, nextId, last, requests>>
  /\ UNCHANGED quoteVars
  /\ UNCHANGED accountVars

\* transferUser, lines 168-175: the user document is written and the
\* request answered
transferWrite(p) ==
  /\ p \in DOMAIN transfers
  /\ transfers[p].pc = "write"
  /\ users' = updateUserTeamAndDepartment(users, transfers[p].userId, transfers[p].newTeamId,
                                          transfers[p].resolvedDepartmentId,
                                          transfers[p].newZoneId)
  /\ transferStep(p, [transfers[p] EXCEPT !.pc = "done", !.status = 200])
  /\ UNCHANGED <<teams, nextId, last, requests>>
  /\ UNCHANGED quoteVars
  /\ UNCHANGED accountVars

\* teams are created with or without a member; users are transferred at the
\* same time
NextTransfers ==
  \/ \E members \in {{}, {u2}} : createTeam(d1, NULL, members)
  \/ \E p \in TransferProcs, userId \in Users, newTeamId \in TeamIds \cup {NULL} :
       transferRead(p, userId, NULL, newTeamId, z1)
  \/ \E p \in TransferProcs : transferLeave(p)
  \/ \E p \in TransferProcs : transferJoin(p)
  \/ \E p \in TransferProcs : transferWrite(p)

SpecTransfers == Init /\ [][NextTransfers]_vars

(***************************************************************************)
(* Properties                                                              *)
(***************************************************************************)

\* team t lists user u as its leader or among its members
Lists(ts, t, u) == ts[t].teamLeader = u \/ u \in ts[t].members

\* C1: after any sequence of completed requests every user listed by a team
\* (as leader or member) carries that team and that team's department, and
\* every user no team lists has team, department and zone all null.
C1_UserReflectsTeam ==
  \A u \in Users :
    /\ \A t \in DOMAIN teams :
         Lists(teams, t, u) =>
           users[u].team = t /\ users[u].department = teams[t].department
    /\ (\A t \in DOMAIN teams : ~Lists(teams, t, u)) => users[u] = NewUser

\* C2: after any sequence of completed requests no user is the teamLeader
\* of more than one team.
C2_LeadsAtMostOneTeam ==
  \A s, t \in DOMAIN teams :
    (s # t /\ teams[s].teamLeader # NULL) => teams[s].teamLeader # teams[t].teamLeader

\* C2 witness: a transfer that would have made a team's leader lead a second
\* team was refused by the write, and the user still leads exactly one team.
C2_Witness ==
  /\ last.op = "transferUser"
  /\ last.status = 500
  /\ last.team \in DOMAIN teams
  /\ teams[last.team].teamLeader = NULL
  /\ \E t \in DOMAIN teams : teams[t].teamLeader = last.id

\* C3: a createTeam, or an updateTeam of an existing team, that names as
\* teamLeader a user who already leads a different team is answered 400 and
\* changes no team document and no user document (and creates no team).
C3_LeaderConflictRejected ==
  [][ ( /\ last'.op \in {"createTeam", "updateTeam"}
        /\ last'.op = "updateTeam" => last'.id \in DOMAIN teams
        /\ last'.teamLeader # NULL
        /\ \E t \in DOMAIN teams :
             t # last'.id /\ teams[t].teamLeader = last'.teamLeader )
      => ( /\ last'.status = 400
           /\ teams' = teams
           /\ users' = users
           /\ nextId' = nextId ) ]_vars

\* C3 witness: an updateTeam of an existing team, with a department that is
\* fine, was answered 400 while another team is led by the named user.
C3_Witness ==
  /\ last.op = "updateTeam"
  /\ last.status = 400
  /\ last.id \in DOMAIN teams
  /\ last.department \in Departments \cup {NULL}
  /\ last.teamLeader \in Users
  /\ \E t \in DOMAIN teams : t # last.id /\ teams[t].teamLeader = last.teamLeader

\* C4: a transferUser of a user who currently belongs to a team, towards a
\* target team that does not exist, fails with a 400-class status and has
\* mutated nothing: every team document (the old team's members and
\* teamLeader included) and the user's team, department and zone are as before.
C4_MissingTargetMutatesNothing ==
  [][ ( /\ last'.op = "transferUser"
        /\ last'.id \in Users
        /\ users[last'.id].team # NULL
        /\ last'.team # NULL
        /\ last'.team \notin DOMAIN teams )
      => ( /\ last'.status \in 400..499
           /\ teams' = teams
           /\ users' = users ) ]_vars

\* the leader named by the last request does not exist or is no Team Leader
BadLeader(leaderId) ==
  leaderId # NULL /\ (leaderId \notin Users \/ Role[leaderId] # "Team Leader")

Named(team) == (team.members \cup {team.teamLeader}) \cap Users

\* C6: after a successful deleteTeam the team record no longer exists and
\* the deleted team's teamLeader and every user of its members list have
\* team, department and zone all null.
C6_DeleteUnassigns ==
  (last.op = "deleteTeam" /\ last.status = 200) =>
    /\ last.id \notin DOMAIN teams
    /\ \A u \in Named(last.originalTeam) : users[u] = NewUser

\* C6 witness: a team with a leader and with a member other than the leader
\* has been deleted.
C6_Witness ==
  /\ last.op = "deleteTeam"
  /\ last.status = 200
  /\ last.originalTeam.teamLeader \in Users
  /\ last.originalTeam.members \ {last.originalTeam.teamLeader} # {}

\* the department updateTeam resolved: the payload's if given, else the stored one
ResolvedDepartment ==
  IF last.department # NULL THEN last.department ELSE last.originalTeam.department

\* C7: after a successful updateTeam whose payload names leader L, user L has
\* team equal to the updated team and department equal to the resolved
\* department, whatever the old and the new member lists are.
C7_LeaderAssigned ==
  (last.op = "updateTeam" /\ last.status = 200 /\ last.teamLeader # NULL) =>
    /\ users[last.teamLeader].team = last.id
    /\ users[last.teamLeader].department = ResolvedDepartment

\* C8: after a successful updateTeam every user of the old member list that
\* is not in the new one has team, department and zone all null, and every
\* user of the new member list has the updated team and its resolved department.
C8_MemberDiff ==
  (last.op = "updateTeam" /\ last.status = 200) =>
    /\ \A u \in last.originalTeam.members \ last.members : users[u] = NewUser
    /\ \A u \in last.members :
         users[u].team = last.id /\ users[u].department = ResolvedDepartment

\* C8 witness: an updateTeam dropped one member and took in another, towards
\* a department other than the stored one.
C8_Witness ==
  /\ last.op = "updateTeam"
  /\ last.status = 200
  /\ last.originalTeam.members \ last.members # {}
  /\ last.members \ last.originalTeam.members # {}
  /\ last.department \notin {NULL, last.originalTeam.department}

\* C9: after a successful createTeam or updateTeam the zone written to the
\* leader and to every assigned or resynced member is the zone of the team's
\* department, whatever zone the user held before.  (createTeam writes the
\* leader and every member; updateTeam writes the leader, and a member whose
\* document changed has been written.)
C9_ZoneFromDepartment ==
  [][ ( /\ last'.op \in {"createTeam", "updateTeam"}
        /\ last'.status \in {200, 201} )
      => \A u \in Users :
           ( /\ \/ u = last'.teamLeader
                \/ u \in last'.members /\ last'.op = "createTeam"
                \/ u \in last'.members /\ users'[u] # users[u]
             /\ users'[u].team = last'.id )
           => users'[u].zone = DepartmentZone[teams'[last'.id].department] ]_vars

\* C10: after a successful transferUser of a user whose current team A is
\* not the target team, the user is neither in A.members nor A.teamLeader,
\* and A's other members, and A's leader when it is another user, are as before.
C10_LeavesOldTeam ==
  ( /\ last.op = "transferUser"
    /\ last.status = 200
    /\ last.originalTeamId # NULL
    /\ last.originalTeamId # last.team
    /\ last.originalTeamId \in DOMAIN teams )
  => LET A == teams[last.originalTeamId]
     IN /\ last.id \notin A.members
        /\ A.teamLeader # last.id
        /\ A.members = last.originalTeam.members \ {last.id}
        /\ last.originalTeam.teamLeader # last.id => A.teamLeader = last.originalTeam.teamLeader

\* C10 witness: the user left a team that listed it next to another member.
C10_Witness ==
  /\ last.op = "transferUser"
  /\ last.status = 200
  /\ last.originalTeamId \in DOMAIN teams
  /\ last.originalTeamId # last.team
  /\ last.id \in last.originalTeam.members
  /\ last.originalTeam.members # {last.id}
  /\ teams[last.originalTeamId].members # {}


(***************************************************************************)
(* Quotation controller: the money and tax calculator.                     *)
(*                                                                         *)
(* An amount is a whole number of thousandths of a rupee, a percentage a   *)
(* whole number; the doubles of the code are taken as exact, except that   *)
(* toFixed(2) on an amount halfway between two cents goes up or down with  *)
(* the binary double nearest to it, which tieUp stands for.                *)
(***************************************************************************)

\* JavaScript null in a numeric field
Null == -1

\* JavaScript undefined: the field is absent
Undefined == -2

\* one cent, in thousandths of a rupee
Cent == 10

\* bound on the number of line items of a quotation handed to the calculator
MaxItems == 2

\* mutant: a truthiness test, which takes 0 for absent
presentTruthy(v) == v # Null /\ v # Undefined /\ v # 0

\* `v !== null && v !== undefined`
present(v) == v # Null /\ v # Undefined

\* formatCurrency: parseFloat(Number(amount || 0).toFixed(2))
formatCurrency(amount) ==
  LET r == amount % Cent
  IN IF 2 * r < Cent THEN amount - r
     ELSE IF 2 * r > Cent THEN amount - r + Cent
     ELSE IF tieUp THEN amount - r + Cent ELSE amount - r

RECURSIVE calculateSubTotal(_)
\* calculateSubTotal: items.reduce((sum, i) => sum + quantity * rate, 0)
calculateSubTotal(items) ==
  IF items = << >> THEN 0
  ELSE Head(items).quantity * Head(items).rate + calculateSubTotal(Tail(items))

RECURSIVE totalCalculatedGst(_)
\* calculateTotalGst, lines 413-417: the sum of itemTotal * (gstPercentage / 100)
totalCalculatedGst(items) ==
  IF items = << >> THEN 0
  ELSE (Head(items).quantity * Head(items).rate * Head(items).gstPercentage) \div 100
       + totalCalculatedGst(Tail(items))

\* mutant: an interstate quotation is split into sgst and cgst as well
calculateTotalGstAlwaysSplit(items, gstType) ==
  LET total == totalCalculatedGst(items)
  IN [totalGst |-> formatCurrency(total),
      sgst |-> formatCurrency(total \div 2),
      cgst |-> formatCurrency(total \div 2),
      igst |-> formatCurrency(0)]

\* calculateTotalGst
calculateTotalGst(items, gstType) ==
  LET total == totalCalculatedGst(items)
      sgst == IF gstType = "intrastate" THEN total \div 2 ELSE 0
      cgst == IF gstType = "intrastate" THEN total \div 2 ELSE 0
      igst == IF gstType = "interstate" THEN total ELSE 0
  IN [totalGst |-> formatCurrency(total),
      sgst |-> formatCurrency(sgst),
      cgst |-> formatCurrency(cgst),
      igst |-> formatCurrency(igst)]

\* mutant: a side without a manual percentage contributes nothing
manualSideValueOrZero(subTotal, manualPercentage, breakdownValue) ==
  IF present(manualPercentage) THEN (subTotal * manualPercentage) \div 100 ELSE 0

\* calculateTotal, lines 447-448: a side's manual percentage of the subtotal,
\* or else the side's value of the breakdown
manualSideValue(subTotal, manualPercentage, breakdownValue) ==
  IF present(manualPercentage)
  THEN (subTotal * manualPercentage) \div 100
  ELSE breakdownValue

\* calculateTotal
calculateTotal(subTotal, gstBreakdown, gstType, manualGstAmount, manualSgstPercentage, manualCgstPercentage, manualIgstPercentage) ==
  LET taxToUse ==
        IF present(manualGstAmount) THEN manualGstAmount
        ELSE IF gstType = "intrastate"
                /\ (manualSgstPercentage # Null \/ manualCgstPercentage # Null)
        THEN manualSideValue(subTotal, manualSgstPercentage, gstBreakdown.sgst)
             + manualSideValue(subTotal, manualCgstPercentage, gstBreakdown.cgst)
        ELSE IF gstType = "interstate" /\ present(manualIgstPercentage)
        THEN (subTotal * manualIgstPercentage) \div 100
        ELSE gstBreakdown.totalGst
  IN formatCurrency(subTotal + taxToUse)

GstTypes == {"intrastate", "interstate"}

\* the line items the calculator is tried on: quantity, rate, gstPercentage
ItemValues ==
  [quantity : {1, 2}, rate : {1000, 100000}, gstPercentage : {5, 18}]

RECURSIVE ItemLists(_)
\* every list of at most n line items
ItemLists(n) ==
  IF n = 0 THEN {<< >>}
  ELSE LET shorter == ItemLists(n - 1)
       IN shorter \cup {Append(l, i) : l \in {k \in shorter : Len(k) = n - 1}, i \in ItemValues}

\* the inputs the calculator is tried on
CalcInputs ==
  [items : ItemLists(MaxItems), gstType : GstTypes,
   manualGstAmount : {Undefined, Null, 0, 50000},
   manualSgstPercentage : {Undefined, Null, 5},
   manualCgstPercentage : {Undefined, Null, 5},
   manualIgstPercentage : {Undefined, Null, 12}]

NoBreakdown == [totalGst |-> 0, sgst |-> 0, cgst |-> 0, igst |-> 0]

\* the calculator as create and update run it (lines 511-517, 609-611)
calculate ==
  /\ calc.stage = "input"
  /\ LET subTotal == calculateSubTotal(calc.input.items)
         gstBreakdown == calculateTotalGst(calc.input.items, calc.input.gstType)
     IN calc' = [stage |-> "done", input |-> calc.input,
                 subTotal |-> subTotal, gstBreakdown |-> gstBreakdown,
                 total |-> calculateTotal(subTotal, gstBreakdown, calc.input.gstType,
                                          calc.input.manualGstAmount,
                                          calc.input.manualSgstPercentage,
                                          calc.input.manualCgstPercentage,
                                          calc.input.manualIgstPercentage)]
  /\ UNCHANGED <<quotations, nextQid, qlast, qrequests, inflight, tieUp, generated>>
  /\ UNCHANGED teamVars
  /\ UNCHANGED accountVars

InitCalc ==
  /\ TeamsIdle
  /\ AccountsIdle
  /\ quotations = << >>
  /\ nextQid = 1
  /\ qlast = NoQRequest
  /\ qrequests = 0
  /\ inflight = << >>
  /\ generated = << >>
  /\ tieUp \in BOOLEAN
  /\ \E input \in CalcInputs :
       calc = [stage |-> "input", input |-> input, subTotal |-> 0,
               gstBreakdown |-> NoBreakdown, total |-> 0]

NextCalc == calculate

SpecCalc == InitCalc /\ [][NextCalc]_vars

(***************************************************************************)
(* quotationController create, update and remove over the Quotation        *)
(* collection.  A quotation number is a sequence of characters, so that    *)
(* split, parseInt, toString and padStart do what they do in the code.     *)
(* Notes keep their text; author and timestamp are left out.  A document   *)
(* _id is never reused, and createdAt order is _id order.                  *)
(***************************************************************************)

\* bound on the number of quotation requests handled in one behaviour
MaxQuoteRequests == 3

\* bound on the number of create requests in flight at once
MaxInflight == 2

\* the requests that can be in flight
Procs == 1..MaxInflight

\* parseInt of a text that does not start with a digit
NaN == -3

\* the payload gives no quotationNumber, or an empty one: `!finalQuotationNumber`
NoNumber == << >>

Q00001 == <<"Q", "-", "0", "0", "0", "0", "1">>

Digits == <<"0", "1", "2", "3", "4", "5", "6", "7", "8", "9">>

isDigit(c) == \E i \in 1..10 : Digits[i] = c

digitValue(c) == (CHOOSE i \in 1..10 : Digits[i] = c) - 1

\* quotationNumber.split('-').pop(): the text after the last '-', the whole
\* text when it has none
lastSegment(number) ==
  LET dashes == {i \in 1..Len(number) : number[i] = "-"}
  IN IF dashes = {} THEN number
     ELSE SubSeq(number, (CHOOSE i \in dashes : \A j \in dashes : j <= i) + 1, Len(number))

RECURSIVE parseDigits(_, _)
\* the value of the leading run of digits of a text
parseDigits(text, value) ==
  IF text = << >> \/ ~isDigit(Head(text)) THEN value
  ELSE parseDigits(Tail(text), 10 * value + digitValue(Head(text)))

\* parseInt: the leading run of digits, NaN when the text starts with none
\* (the numbers of the model hold no blank and no sign)
parseInt(text) ==
  IF text = << >> \/ ~isDigit(Head(text)) THEN NaN ELSE parseDigits(text, 0)

RECURSIVE toString(_)
\* Number.prototype.toString of a non-negative integer or NaN
toString(n) ==
  IF n = NaN THEN <<"N", "a", "N">>
  ELSE IF n < 10 THEN <<Digits[n + 1]>>
  ELSE toString(n \div 10) \o <<Digits[(n % 10) + 1]>>

\* String.prototype.padStart with a one-character filler
padStart(text, targetLength, c) ==
  IF Len(text) >= targetLength THEN text
  ELSE [i \in 1..(targetLength - Len(text)) |-> c] \o text

\* lastNum + 1: NaN + 1 is NaN
plusOne(lastNum) == IF lastNum = NaN THEN NaN ELSE lastNum + 1

\* Quotation.findOne().sort({createdAt: -1}): the _id of the most recently
\* created quotation, NULL when the collection is empty
lastQuotation(store) ==
  IF DOMAIN store = {} THEN NULL
  ELSE CHOOSE q \in DOMAIN store : \A r \in DOMAIN store : r <= q

\* create, lines 499-508: the number given to a create that supplies none
generateNumber(store) ==
  LET newest == lastQuotation(store)
  IN IF newest # NULL /\ store[newest].quotationNumber # << >>
     THEN <<"Q", "-">>
          \o padStart(toString(plusOne(parseInt(lastSegment(store[newest].quotationNumber)))),
                      5, "0")
     ELSE Q00001

\* create, lines 497-508
finalQuotationNumber(quotationNumber, store) ==
  IF quotationNumber # NoNumber THEN quotationNumber ELSE generateNumber(store)

\* the Quotation schema gives an optional manual override field no default:
\* a field the payload leaves out stays absent in the stored document
manualFieldDefault == Undefined

\* what the document holds for a manual override field set to v
storedManualField(v) == IF v = Undefined THEN manualFieldDefault ELSE v

\* create, lines 510-553: new Quotation({...})
newQuotation(payload, number) ==
  LET subTotal == calculateSubTotal(payload.items)
      gstBreakdown == calculateTotalGst(payload.items, payload.gstType)
  IN [quotationNumber |-> number,
      items |-> payload.items,
      gstType |-> payload.gstType,
      subTotal |-> subTotal,
      gstBreakdown |-> gstBreakdown,
      total |-> calculateTotal(subTotal, gstBreakdown, payload.gstType,
                               payload.manualGstAmount, payload.manualSgstPercentage,
                               payload.manualCgstPercentage, payload.manualIgstPercentage),
      notes |-> payload.notes,
      followUps |-> << >>,
      manualGstAmount |-> storedManualField(payload.manualGstAmount),
      manualSgstPercentage |-> storedManualField(payload.manualSgstPercentage),
      manualCgstPercentage |-> storedManualField(payload.manualCgstPercentage),
      manualIgstPercentage |-> storedManualField(payload.manualIgstPercentage)]

\* the unique index on quotationNumber that the duplicate-key branch of
\* create answers for (err.code === 11000)
numberIndexAccepts(store, number) ==
  \A q \in DOMAIN store : store[q].quotationNumber # number

\* what create logs of the request and of the last quotation it read
createRequest(payload, store) ==
  LET newest == lastQuotation(store)
  IN [op |-> "create", status |-> 0, id |-> NULL, payload |-> payload,
      lastExisted |-> newest # NULL,
      lastNumber |-> IF newest # NULL THEN store[newest].quotationNumber ELSE << >>]

\* create, lines 555-564: newQuotation.save() and the response, 201 with
\* the stored document or 400 on a duplicate quotation number
saveQuotation(doc, auto, request) ==
  IF numberIndexAccepts(quotations, doc.quotationNumber)
  THEN /\ quotations' = [q \in DOMAIN quotations \cup {nextQid} |->
                           IF q = nextQid THEN doc ELSE quotations[q]]
       /\ nextQid' = nextQid + 1
       /\ generated' = IF auto THEN Append(generated, doc.quotationNumber) ELSE generated
       /\ qlast' = [request EXCEPT !.status = 201, !.id = nextQid]
  ELSE /\ qlast' = [request EXCEPT !.status = 400]
       /\ UNCHANGED <<quotations, nextQid, generated>>

\* POST /quotations handled without another request in between
create(payload) ==
  /\ qrequests < MaxQuoteRequests
  /\ qrequests' = qrequests + 1
  /\ saveQuotation(newQuotation(payload,
                                finalQuotationNumber(payload.quotationNumber, quotations)),
                   payload.quotationNumber = NoNumber,
                   createRequest(payload, quotations))
  /\ UNCHANGED <<inflight, calc, tieUp>>
  /\ UNCHANGED teamVars
  /\ UNCHANGED accountVars

\* mutant: the number is drawn from a counter shared by the requests
createReadCounter(p, payload) ==
  /\ qrequests < MaxQuoteRequests
  /\ p \notin DOMAIN inflight
  /\ qrequests' = qrequests + 1
  /\ LET number == IF payload.quotationNumber # NoNumber THEN payload.quotationNumber
                   ELSE <<"Q", "-">> \o padStart(toString(qrequests + 1), 5, "0")
         request == [doc |-> newQuotation(payload, number),
                     auto |-> payload.quotationNumber = NoNumber,
                     seen |-> lastQuotation(quotations),
                     request |-> createRequest(payload, quotations)]
     IN inflight' = [q \in DOMAIN inflight \cup {p} |->
                       IF q = p THEN request ELSE inflight[q]]
  /\ UNCHANGED <<quotations, nextQid, qlast, calc, tieUp, generated>>
  /\ UNCHANGED teamVars
  /\ UNCHANGED accountVars

\* POST /quotations up to `await newQuotation.save()`: the request has read
\* the last quotation (line 501) and built its document (lines 510-553)
createRead(p, payload) ==
  /\ qrequests < MaxQuoteRequests
  /\ p \notin DOMAIN inflight
  /\ qrequests' = qrequests + 1
  /\ LET number == finalQuotationNumber(payload.quotationNumber, quotations)
         request == [doc |-> newQuotation(payload, number),
                     auto |-> payload.quotationNumber = NoNumber,
                     seen |-> lastQuotation(quotations),
                     request |-> createRequest(payload, quotations)]
     IN inflight' = [q \in DOMAIN inflight \cup {p} |->
                       IF q = p THEN request ELSE inflight[q]]
  /\ UNCHANGED <<quotations, nextQid, qlast, calc, tieUp, generated>>
  /\ UNCHANGED teamVars
  /\ UNCHANGED accountVars

\* POST /quotations from `await newQuotation.save()` on (lines 555-564)
createSave(p) ==
  /\ p \in DOMAIN inflight
  /\ saveQuotation(inflight[p].doc, inflight[p].auto, inflight[p].request)
  /\ inflight' = [q \in DOMAIN inflight \ {p} |-> inflight[q]]
  /\ UNCHANGED <<qrequests, calc, tieUp>>
  /\ UNCHANGED teamVars
  /\ UNCHANGED accountVars

\* update, line 581: a note is pushed when its text is not empty
hasText(note) == note.text # ""

\* update, line 579: the payload's notes are a non-empty array
incomingNotes(payload) ==
  "notes" \in payload.keys /\ payload.notesIsArray /\ Len(payload.notes) > 0

\* mutant: the incoming notes take the place of the stored ones
mergeNotesReplace(notes, payload) ==
  IF incomingNotes(payload) THEN SelectSeq(payload.notes, hasText) ELSE notes

\* update, lines 579-590: the stored notes with the incoming ones pushed
mergeNotes(notes, payload) ==
  IF incomingNotes(payload) THEN notes \o SelectSeq(payload.notes, hasText) ELSE notes

\* update, line 589: `delete updateData.notes` once the notes are merged
keysAfterNotes(payload) ==
  IF incomingNotes(payload) THEN payload.keys \ {"notes"} ELSE payload.keys

\* update, lines 593-598: the payload fields that make update recalculate
calculatorKeys ==
  {"items", "gstType", "manualGstAmount", "manualSgstPercentage",
   "manualCgstPercentage", "manualIgstPercentage"}

\* update, lines 602-607: the payload's value when it gives one, or else
\* the stored one
toUse(key, payload, quotation) ==
  IF key \in payload.keys THEN payload[key] ELSE quotation[key]

\* update, lines 601-622
recalculated(quotation, payload) ==
  IF payload.keys \cap calculatorKeys = {} THEN quotation
  ELSE LET itemsToUse == toUse("items", payload, quotation)
           gstTypeToUse == toUse("gstType", payload, quotation)
           manualGstAmountToUse == toUse("manualGstAmount", payload, quotation)
           manualSgstPercentageToUse == toUse("manualSgstPercentage", payload, quotation)
           manualCgstPercentageToUse == toUse("manualCgstPercentage", payload, quotation)
           manualIgstPercentageToUse == toUse("manualIgstPercentage", payload, quotation)
           newSubTotal == calculateSubTotal(itemsToUse)
           newGstBreakdown == calculateTotalGst(itemsToUse, gstTypeToUse)
       IN [quotation EXCEPT
             !.subTotal = newSubTotal,
             !.gstBreakdown = newGstBreakdown,
             !.total = calculateTotal(newSubTotal, newGstBreakdown, gstTypeToUse,
                                      manualGstAmountToUse, manualSgstPercentageToUse,
                                      manualCgstPercentageToUse, manualIgstPercentageToUse),
             !.items = itemsToUse,
             !.gstType = gstTypeToUse,
             !.manualGstAmount = manualGstAmountToUse,
             !.manualSgstPercentage = manualSgstPercentageToUse,
             !.manualCgstPercentage = manualCgstPercentageToUse,
             !.manualIgstPercentage = manualIgstPercentageToUse]

\* mutant: a total in the payload is written to the document
protectedKeysWithoutTotal ==
  {"items", "subTotal", "gstBreakdown", "createdAt", "notes", "manualIgstPercentage"}

\* update, line 628: the keys the generic merge leaves alone
protectedKeys ==
  {"items", "subTotal", "gstBreakdown", "total", "createdAt", "notes",
   "manualIgstPercentage"}

\* update, lines 626-631: every other key of the payload is written as given
applyOtherUpdates(quotation, payload, keys) ==
  [field \in DOMAIN quotation |->
     IF field \in keys \ protectedKeys THEN payload[field] ELSE quotation[field]]

\* PUT /quotations/:id
update(id, payload) ==
  /\ qrequests < MaxQuoteRequests
  /\ qrequests' = qrequests + 1
  /\ IF id \notin DOMAIN quotations
     THEN /\ qlast' = [op |-> "update", status |-> 404, id |-> id, payload |-> payload]
          /\ UNCHANGED quotations
     ELSE LET withNotes == [quotations[id] EXCEPT
                              !.notes = mergeNotes(quotations[id].notes, payload)]
              quotation == applyOtherUpdates(recalculated(withNotes, payload),
                                             payload, keysAfterNotes(payload))
          IN /\ quotations' = [quotations EXCEPT ![id] = quotation]
             /\ qlast' = [op |-> "update", status |-> 200, id |-> id, payload |-> payload]
  /\ UNCHANGED <<nextQid, inflight, calc, tieUp, generated>>
  /\ UNCHANGED teamVars
  /\ UNCHANGED accountVars

\* DELETE /quotations/:id
remove(id) ==
  /\ qrequests < MaxQuoteRequests
  /\ qrequests' = qrequests + 1
  /\ IF id \notin DOMAIN quotations
     THEN /\ qlast' = [op |-> "remove", status |-> 404, id |-> id]
          /\ UNCHANGED quotations
     ELSE /\ quotations' = [q \in DOMAIN quotations \ {id} |-> quotations[q]]
          /\ qlast' = [op |-> "remove", status |-> 200, id |-> id]
  /\ UNCHANGED <<nextQid, inflight, calc, tieUp, generated>>
  /\ UNCHANGED teamVars
  /\ UNCHANGED accountVars

\* one item of 1.00 at 5%, whose tax halves to 0.025 a side
oneRupee == <<[quantity |-> 1, rate |-> 1000, gstPercentage |-> 5]>>

\* two items of 100.00 at 18%
twoHundred == <<[quantity |-> 2, rate |-> 100000, gstPercentage |-> 18]>>

\* a create payload with nothing optional in it
plainCreate ==
  [quotationNumber |-> NoNumber, items |-> oneRupee, gstType |-> "intrastate",
   manualGstAmount |-> Undefined, manualSgstPercentage |-> Undefined,
   manualCgstPercentage |-> Undefined, manualIgstPercentage |-> Undefined,
   notes |-> << >>]

\* the create payloads tried
CreatePayloads ==
  { plainCreate,
    [plainCreate EXCEPT !.items = twoHundred, !.gstType = "interstate"],
    [plainCreate EXCEPT !.items = twoHundred, !.manualGstAmount = 0],
    [plainCreate EXCEPT !.manualSgstPercentage = 5, !.manualCgstPercentage = Null],
    [plainCreate EXCEPT !.gstType = "interstate", !.manualIgstPercentage = 12],
    [plainCreate EXCEPT !.quotationNumber = <<"Q", "-", "0", "0", "0", "0", "2">>],
    [plainCreate EXCEPT !.quotationNumber = <<"D", "R", "A", "F", "T">>],
    [plainCreate EXCEPT !.notes = <<[text |-> "a"]>>] }

\* an update payload with no key in it
emptyUpdate ==
  [keys |-> {}, items |-> << >>, gstType |-> "intrastate",
   manualGstAmount |-> Undefined, manualSgstPercentage |-> Undefined,
   manualCgstPercentage |-> Undefined, manualIgstPercentage |-> Undefined,
   subTotal |-> 0, gstBreakdown |-> NoBreakdown, total |-> 0,
   notes |-> << >>, notesIsArray |-> TRUE]

itemsUpdate == [emptyUpdate EXCEPT !.keys = {"items"}, !.items = twoHundred]

\* the update payloads tried
UpdatePayloads ==
  { itemsUpdate,
    [emptyUpdate EXCEPT !.keys = {"gstType"}, !.gstType = "interstate"],
    [emptyUpdate EXCEPT !.keys = {"manualGstAmount"}, !.manualGstAmount = 0],
    [emptyUpdate EXCEPT !.keys = {"manualCgstPercentage"}, !.manualCgstPercentage = 5],
    [emptyUpdate EXCEPT !.keys = {"manualIgstPercentage"}, !.manualIgstPercentage = 12],
    [emptyUpdate EXCEPT !.keys = {"subTotal", "gstBreakdown", "total"},
                        !.subTotal = 999000, !.total = 999000,
                        !.gstBreakdown = [NoBreakdown EXCEPT !.totalGst = 999000]],
    [emptyUpdate EXCEPT !.keys = {"notes"}],
    [emptyUpdate EXCEPT !.keys = {"notes"},
                        !.notes = <<[text |-> ""], [text |-> "b"]>>],
    [emptyUpdate EXCEPT !.keys = {"notes"}, !.notesIsArray = FALSE] }

InitQuotations ==
  /\ TeamsIdle
  /\ AccountsIdle
  /\ QuotationsIdle
  /\ tieUp \in BOOLEAN

\* requests for a quotation that does not exist are tried with one payload
NextQuotations ==
  \/ \E payload \in CreatePayloads : create(payload)
  \/ \E id \in 1..nextQid, payload \in UpdatePayloads :
       (id \in DOMAIN quotations \/ payload = itemsUpdate) /\ update(id, payload)
  \/ \E id \in 1..nextQid : remove(id)

SpecQuotations == InitQuotations /\ [][NextQuotations]_vars

\* the create payloads of the requests that run interleaved
RacePayloads ==
  { plainCreate,
    [plainCreate EXCEPT !.quotationNumber = <<"Q", "-", "0", "0", "0", "0", "2">>] }

InitRace ==
  /\ TeamsIdle
  /\ AccountsIdle
  /\ QuotationsIdle
  /\ tieUp = TRUE

\* create requests interleave at their await of save; remove is one call
NextRace ==
  \/ \E p \in Procs, payload \in RacePayloads : createRead(p, payload)
  \/ \E p \in Procs : createSave(p)
  \/ \E id \in 1..nextQid : remove(id)

SpecRace == InitRace /\ [][NextRace]_vars

(***************************************************************************)
(* accountController create, update and delete over the BusinessAccount    *)
(* collection.  A business name is a sequence of letters.  A document      *)
(* holds the paths of businessAccountSchema that the handlers touch; what  *)
(* a handler sets outside the schema is not stored (the schema is strict). *)
(***************************************************************************)

\* bound on the number of account requests handled in one behaviour
MaxAccountRequests == 3

\* String.prototype.toLowerCase, as the 'i' flag of the regular expression
\* folds a letter
toLowerCase(c) ==
  CASE c = "A" -> "a"
    [] c = "B" -> "b"
    [] c = "C" -> "c"
    [] OTHER -> c

\* create, lines 199-200: new RegExp(`^${businessName}$`, 'i') matches the
\* stored name (the names of the model hold letters only)
regexMatches(businessName, stored) ==
  /\ Len(businessName) = Len(stored)
  /\ \A i \in 1..Len(stored) : toLowerCase(businessName[i]) = toLowerCase(stored[i])

\* create, lines 199-201: BusinessAccount.findOne({businessName: {$regex}})
existingAccount(store, businessName) ==
  {a \in DOMAIN store : regexMatches(businessName, store[a].businessName)}

\* create, lines 214-218 and update, lines 238-242: the payload with
\* isCustomer set from its status
withIsCustomer(payload) ==
  [keys |-> payload.keys \cup {"isCustomer"},
   businessName |-> payload.businessName,
   status |-> payload.status,
   isCustomer |-> ("status" \in payload.keys /\ payload.status = "Customer")]

\* businessAccountSchema: the paths of the model's documents
accountSchemaPaths == {"businessName", "status", "followUps"}

\* businessAccountSchema: status defaults to 'Active', followUps to []
accountDefaults == [status |-> "Active", followUps |-> << >>]

\* new BusinessAccount(data): the schema paths of data, and the defaults
newBusinessAccount(data) ==
  [path \in (data.keys \cap accountSchemaPaths) \cup DOMAIN accountDefaults |->
     IF path \in data.keys THEN data[path] ELSE accountDefaults[path]]

\* findByIdAndUpdate(id, data): the schema paths of data are set
setPaths(account, data) ==
  [path \in DOMAIN account \cup (data.keys \cap accountSchemaPaths) |->
     IF path \in data.keys \cap accountSchemaPaths THEN data[path] ELSE account[path]]

\* the unique index on businessName (schema line 82), in the collection's
\* default collation: names are equal when spelled the same
businessNameIndexAccepts(store, id, businessName) ==
  \A a \in DOMAIN store \ {id} : store[a].businessName # businessName

\* what an account handler logs of its request
accountRequest(op, status, id, payload) ==
  [op |-> op, status |-> status, id |-> id, payload |-> payload,
   before |-> {accounts[a].businessName : a \in DOMAIN accounts},
   nextAid |-> nextAid]

\* POST /accounts
createAccount(payload) ==
  /\ arequests < MaxAccountRequests
  /\ arequests' = arequests + 1
  /\ IF existingAccount(accounts, payload.businessName) # {}
     THEN /\ alast' = accountRequest("createAccount", 409, NULL, payload)
          /\ UNCHANGED <<accounts, nextAid>>
     ELSE IF ~businessNameIndexAccepts(accounts, NULL, payload.businessName)
     THEN /\ alast' = accountRequest("createAccount", 500, NULL, payload)
          /\ UNCHANGED <<accounts, nextAid>>
     ELSE /\ accounts' = [a \in DOMAIN accounts \cup {nextAid} |->
                            IF a = nextAid THEN newBusinessAccount(withIsCustomer(payload))
                            ELSE accounts[a]]
          /\ nextAid' = nextAid + 1
          /\ alast' = accountRequest("createAccount", 201, nextAid, payload)
  /\ UNCHANGED teamVars
  /\ UNCHANGED quoteVars

\* PUT /accounts/:id
updateAccount(id, payload) ==
  /\ arequests < MaxAccountRequests
  /\ arequests' = arequests + 1
  /\ IF id \notin DOMAIN accounts
     THEN /\ alast' = accountRequest("updateAccount", 404, id, payload)
          /\ UNCHANGED accounts
     ELSE LET updated == setPaths(accounts[id], withIsCustomer(payload))
          IN IF ~businessNameIndexAccepts(accounts, id, updated.businessName)
             THEN /\ alast' = accountRequest("updateAccount", 500, id, payload)
                  /\ UNCHANGED accounts
             ELSE /\ accounts' = [accounts EXCEPT ![id] = updated]
                  /\ alast' = accountRequest("updateAccount", 200, id, payload)
  /\ UNCHANGED nextAid
  /\ UNCHANGED teamVars
  /\ UNCHANGED quoteVars

\* `account[path] = value; account.save()`: a path outside the schema is
\* not saved
savePath(account, path, value) ==
  IF path \in accountSchemaPaths
  THEN [p \in DOMAIN account \cup {path} |-> IF p = path THEN value ELSE account[p]]
  ELSE account

\* DELETE /accounts/:id, the soft delete
deleteAccount(id) ==
  /\ arequests < MaxAccountRequests
  /\ arequests' = arequests + 1
  /\ IF id \notin DOMAIN accounts
     THEN /\ alast' = accountRequest("deleteAccount", 404, id, << >>)
          /\ UNCHANGED accounts
     ELSE /\ accounts' = [accounts EXCEPT ![id] =
                            savePath(savePath(accounts[id], "status", "Closed"),
                                     "isCustomer", FALSE)]
          /\ alast' = accountRequest("deleteAccount", 200, id, << >>)
  /\ UNCHANGED nextAid
  /\ UNCHANGED teamVars
  /\ UNCHANGED quoteVars

\* the business names tried: two that differ in case only, and another
Acme == <<"A", "c">>

acme == <<"a", "C">>

Bolt == <<"B">>

BusinessNames == {Acme, acme, Bolt}

\* the create payloads tried: a name, with a status or without one
AccountCreatePayloads ==
  [keys : {{"businessName"}}, businessName : BusinessNames, status : {"none"}]
  \cup [keys : {{"businessName", "status"}}, businessName : BusinessNames,
        status : {"Active", "Customer"}]

\* the update payloads tried: a status, a name, or neither
AccountUpdatePayloads ==
  [keys : {{"status"}}, businessName : {<< >>}, status : {"Active", "Customer"}]
  \cup [keys : {{"businessName"}}, businessName : BusinessNames, status : {"none"}]
  \cup [keys : {{}}, businessName : {<< >>}, status : {"none"}]

NextAccounts ==
  \/ \E payload \in AccountCreatePayloads : createAccount(payload)
  \/ \E id \in 1..nextAid, payload \in AccountUpdatePayloads : updateAccount(id, payload)
  \/ \E id \in 1..nextAid : deleteAccount(id)

SpecAccounts == Init /\ [][NextAccounts]_vars

(***************************************************************************)
(* The follow-up handlers of quotationController and accountController.    *)
(* The index is the text of the route parameter, used as a property name   *)
(* of the followUps array and as the start of splice.  A follow-up keeps   *)
(* its note and status.                                                    *)
(***************************************************************************)

\* bound on the number of requests handled in a behaviour with follow-ups
MaxFollowUpRequests == 4

\* the route parameters tried as index
Indexes == {"0", "1", "2", "-1", "length"}

\* the texts that are array indices, in canonical decimal form
ArrayIndexes == {"0", "1", "2"}

\* ToIntegerOrInfinity of the text, as splice reads its start: a text that
\* is no number is NaN, taken as 0
toIntegerOrInfinity(index) ==
  CASE index = "0" -> 0
    [] index = "1" -> 1
    [] index = "2" -> 2
    [] index = "-1" -> -1
    [] OTHER -> 0

\* `followUps[index]` is truthy: an element at an array index, or the
\* array's own length when it is not 0
hasProperty(followUps, index) ==
  CASE index \in ArrayIndexes -> toIntegerOrInfinity(index) < Len(followUps)
    [] index = "length" -> Len(followUps) > 0
    [] OTHER -> FALSE

\* followUps.splice(index, 1)
splice(followUps, index) ==
  LET start == toIntegerOrInfinity(index)
      from == IF start < 0
              THEN (IF Len(followUps) + start < 0 THEN 0 ELSE Len(followUps) + start)
              ELSE (IF start > Len(followUps) THEN Len(followUps) ELSE start)
  IN IF from < Len(followUps)
     THEN SubSeq(followUps, 1, from) \o SubSeq(followUps, from + 2, Len(followUps))
     ELSE followUps

\* `followUps[index].note = note; followUps[index].status = status`: an
\* element is changed; a property set on the length, a number, is dropped
setFollowUp(followUps, index, note, status) ==
  IF index \in ArrayIndexes
  THEN [followUps EXCEPT ![toIntegerOrInfinity(index) + 1] = [note |-> note, status |-> status]]
  ELSE followUps

\* what a follow-up handler logs of its request
followUpRequest(op, status, id, index, store) ==
  [op |-> op, status |-> status, id |-> id, index |-> index,
   found |-> id \in DOMAIN store,
   before |-> IF id \in DOMAIN store THEN store[id].followUps ELSE << >>]

\* POST /quotations/:id/followups
addFollowUp(id, note) ==
  /\ qrequests < MaxFollowUpRequests
  /\ qrequests' = qrequests + 1
  /\ IF id \notin DOMAIN quotations
     THEN /\ qlast' = followUpRequest("addFollowUp", 404, id, "none", quotations)
          /\ UNCHANGED quotations
     ELSE /\ quotations' = [quotations EXCEPT ![id].followUps =
                              Append(@, [note |-> note, status |-> "Pending"])]
          /\ qlast' = followUpRequest("addFollowUp", 200, id, "none", quotations)
  /\ UNCHANGED <<nextQid, inflight, calc, tieUp, generated>>
  /\ UNCHANGED teamVars
  /\ UNCHANGED accountVars

\* PUT /quotations/:id/followups/:index; the status is kept when the
\* payload has none
updateFollowUp(id, index, note, hasStatus, status) ==
  /\ qrequests < MaxFollowUpRequests
  /\ qrequests' = qrequests + 1
  /\ IF id \notin DOMAIN quotations \/ ~hasProperty(quotations[id].followUps, index)
     THEN /\ qlast' = followUpRequest("updateFollowUp", 404, id, index, quotations)
          /\ UNCHANGED quotations
     ELSE /\ quotations' = [quotations EXCEPT ![id].followUps =
                              setFollowUp(@, index, note,
                                          IF hasStatus \/ index \notin ArrayIndexes THEN status
                                          ELSE @[toIntegerOrInfinity(index) + 1].status)]
          /\ qlast' = followUpRequest("updateFollowUp", 200, id, index, quotations)
  /\ UNCHANGED <<nextQid, inflight, calc, tieUp, generated>>
  /\ UNCHANGED teamVars
  /\ UNCHANGED accountVars

\* DELETE /quotations/:id/followups/:index
deleteFollowUp(id, index) ==
  /\ qrequests < MaxFollowUpRequests
  /\ qrequests' = qrequests + 1
  /\ IF id \notin DOMAIN quotations \/ ~hasProperty(quotations[id].followUps, index)
     THEN /\ qlast' = followUpRequest("deleteFollowUp", 404, id, index, quotations)
          /\ UNCHANGED quotations
     ELSE /\ quotations' = [quotations EXCEPT ![id].followUps = splice(@, index)]
          /\ qlast' = followUpRequest("deleteFollowUp", 200, id, index, quotations)
  /\ UNCHANGED <<nextQid, inflight, calc, tieUp, generated>>
  /\ UNCHANGED teamVars
  /\ UNCHANGED accountVars

\* POST /accounts/:id/followups; the schema gives the status 'pending'
addAccountFollowUp(id, note) ==
  /\ arequests < MaxFollowUpRequests
  /\ arequests' = arequests + 1
  /\ IF id \notin DOMAIN accounts
     THEN /\ alast' = followUpRequest("addFollowUp", 404, id, "none", accounts)
          /\ UNCHANGED accounts
     ELSE /\ accounts' = [accounts EXCEPT ![id].followUps =
                            Append(@, [note |-> note, status |-> "pending"])]
          /\ alast' = followUpRequest("addFollowUp", 201, id, "none", accounts)
  /\ UNCHANGED nextAid
  /\ UNCHANGED teamVars
  /\ UNCHANGED quoteVars

\* PUT /accounts/:id/followups/:index
updateAccountFollowUp(id, index, note, status) ==
  /\ arequests < MaxFollowUpRequests
  /\ arequests' = arequests + 1
  /\ IF id \notin DOMAIN accounts \/ ~hasProperty(accounts[id].followUps, index)
     THEN /\ alast' = followUpRequest("updateFollowUp", 404, id, index, accounts)
          /\ UNCHANGED accounts
     ELSE /\ accounts' = [accounts EXCEPT ![id].followUps = setFollowUp(@, index, note, status)]
          /\ alast' = followUpRequest("updateFollowUp", 200, id, index, accounts)
  /\ UNCHANGED nextAid
  /\ UNCHANGED teamVars
  /\ UNCHANGED quoteVars

\* DELETE /accounts/:id/followups/:index
deleteAccountFollowUp(id, index) ==
  /\ arequests < MaxFollowUpRequests
  /\ arequests' = arequests + 1
  /\ IF id \notin DOMAIN accounts \/ ~hasProperty(accounts[id].followUps, index)
     THEN /\ alast' = followUpRequest("deleteFollowUp", 404, id, index, accounts)
          /\ UNCHANGED accounts
     ELSE /\ accounts' = [accounts EXCEPT ![id].followUps = splice(@, index)]
          /\ alast' = followUpRequest("deleteFollowUp", 200, id, index, accounts)
  /\ UNCHANGED nextAid
  /\ UNCHANGED teamVars
  /\ UNCHANGED quoteVars

\* a create payload for the account that holds the follow-ups
plainAccount == [keys |-> {"businessName"}, businessName |-> Bolt, status |-> "none"]

\* the two collections do not touch each other: a behaviour exercises the
\* follow-ups of one of them.  A missing document is tried with index "0".
NextFollowUps ==
  \/ arequests = 0 /\ create(plainCreate)
  \/ \E id \in 1..nextQid, note \in {"a", "b"} :
       arequests = 0 /\ addFollowUp(id, note)
  \/ \E id \in 1..nextQid, index \in Indexes, hasStatus \in BOOLEAN :
       /\ arequests = 0
       /\ id \in DOMAIN quotations \/ index = "0"
       /\ updateFollowUp(id, index, "c", hasStatus, "Completed")
  \/ \E id \in 1..nextQid, index \in Indexes :
       /\ arequests = 0
       /\ id \in DOMAIN quotations \/ index = "0"
       /\ deleteFollowUp(id, index)
  \/ qrequests = 0 /\ createAccount(plainAccount)
  \/ \E id \in 1..nextAid, note \in {"a", "b"} :
       qrequests = 0 /\ addAccountFollowUp(id, note)
  \/ \E id \in 1..nextAid, index \in Indexes :
       /\ qrequests = 0
       /\ id \in DOMAIN accounts \/ index = "0"
       /\ updateAccountFollowUp(id, index, "c", "completed")
  \/ \E id \in 1..nextAid, index \in Indexes :
       /\ qrequests = 0
       /\ id \in DOMAIN accounts \/ index = "0"
       /\ deleteAccountFollowUp(id, index)

SpecFollowUps == Init /\ [][NextFollowUps]_vars

\* C11: after a successful transferUser with an existing target team T the
\* user's team is T, the user's department is T.department whatever
\* newDepartmentId was passed, the user's zone is exactly the caller's
\* newZoneId, and the user is in T.members.
C11_TransferAssigns ==
  (last.op = "transferUser" /\ last.status = 200 /\ last.team # NULL) =>
    /\ last.team \in DOMAIN teams
    /\ users[last.id].team = last.team
    /\ users[last.id].department = teams[last.team].department
    /\ users[last.id].zone = last.zone
    /\ last.id \in teams[last.team].members

\* C11 witness: the caller passed a department other than the target team's
\* and a zone other than that department's.
C11_Witness ==
  /\ last.op = "transferUser"
  /\ last.status = 200
  /\ last.team \in DOMAIN teams
  /\ last.department \in Departments \ {teams[last.team].department}
  /\ last.zone # DepartmentZone[teams[last.team].department]
  /\ users[last.id].department = teams[last.team].department

\* the calculator has run
Calculated == calc # << >> /\ calc.stage = "done"

\* no manual override is present: each of the four fields is absent or null
NoOverride(input) ==
  /\ input.manualGstAmount \in {Null, Undefined}
  /\ input.manualSgstPercentage \in {Null, Undefined}
  /\ input.manualCgstPercentage \in {Null, Undefined}
  /\ input.manualIgstPercentage \in {Null, Undefined}

\* C13: when no manual override is present (each of the four fields absent
\* or null), for gstType intrastate and interstate alike the total is
\* round2(subTotal + the breakdown's totalGst).
C13_AutoTotal ==
  (Calculated /\ NoOverride(calc.input)) =>
    calc.total = formatCurrency(calc.subTotal + calc.gstBreakdown.totalGst)

\* C14: whenever manualGstAmount is present (non-null, 0 included) the total
\* is round2(subTotal + manualGstAmount), for every gstType and every value
\* of the three manual percentages.
C14_ManualAmountWins ==
  (Calculated /\ calc.input.manualGstAmount >= 0) =>
    calc.total = formatCurrency(calc.subTotal + calc.input.manualGstAmount)

\* C14 witness: a manual amount of 0 next to a manual SGST percentage, on
\* items that do carry tax.
C14_Witness ==
  /\ Calculated
  /\ calc.input.manualGstAmount = 0
  /\ calc.input.manualSgstPercentage = 5
  /\ calc.input.gstType = "intrastate"
  /\ calc.gstBreakdown.totalGst > 0
  /\ calc.total = calc.subTotal

\* C15: intrastate, manualGstAmount absent, exactly one of the manual SGST
\* and CGST percentages present: the tax is that percentage of the subtotal
\* for the overridden side plus the breakdown's value for the other side,
\* and the total is round2(subTotal + tax).
C15_OneSidedOverride ==
  ( /\ Calculated
    /\ calc.input.gstType = "intrastate"
    /\ calc.input.manualGstAmount < 0 )
  => /\ (calc.input.manualSgstPercentage >= 0 /\ calc.input.manualCgstPercentage < 0)
        => calc.total = formatCurrency(calc.subTotal
                          + (calc.subTotal * calc.input.manualSgstPercentage) \div 100
                          + calc.gstBreakdown.cgst)
     /\ (calc.input.manualCgstPercentage >= 0 /\ calc.input.manualSgstPercentage < 0)
        => calc.total = formatCurrency(calc.subTotal
                          + (calc.subTotal * calc.input.manualCgstPercentage) \div 100
                          + calc.gstBreakdown.sgst)

\* C15 witness: only the CGST percentage is given, and the SGST side of the
\* breakdown is not what that percentage would give.
C15_Witness ==
  /\ Calculated
  /\ calc.input.gstType = "intrastate"
  /\ calc.input.manualGstAmount = Undefined
  /\ calc.input.manualSgstPercentage = Null
  /\ calc.input.manualCgstPercentage = 5
  /\ calc.gstBreakdown.sgst > 0
  /\ calc.gstBreakdown.sgst # (calc.subTotal * 5) \div 100

\* C16: for every item list, the breakdown of an intrastate quotation has
\* igst = 0 and sgst = cgst, and the breakdown of an interstate quotation
\* has sgst = cgst = 0 and igst = totalGst.
C16_BreakdownShape ==
  Calculated =>
    /\ calc.input.gstType = "intrastate" =>
         calc.gstBreakdown.igst = 0 /\ calc.gstBreakdown.sgst = calc.gstBreakdown.cgst
    /\ calc.input.gstType = "interstate" =>
         /\ calc.gstBreakdown.sgst = 0
         /\ calc.gstBreakdown.cgst = 0
         /\ calc.gstBreakdown.igst = calc.gstBreakdown.totalGst

\* C16 witness: an interstate quotation of two taxed items.
C16_Witness ==
  /\ Calculated
  /\ calc.input.gstType = "interstate"
  /\ Len(calc.input.items) = 2
  /\ calc.gstBreakdown.igst > 0

\* C12: after any sequence of successful quotation creates and updates the
\* stored subTotal, gstBreakdown and total of every quotation are what the
\* calculator returns for its stored items, gstType and four manual
\* override fields; subTotal, gstBreakdown or total in a payload never
\* change them.
C12_DerivedConsistent ==
  \A q \in DOMAIN quotations :
    LET d == quotations[q]
        subTotal == calculateSubTotal(d.items)
        gstBreakdown == calculateTotalGst(d.items, d.gstType)
    IN /\ d.subTotal = subTotal
       /\ d.gstBreakdown = gstBreakdown
       /\ d.total = calculateTotal(subTotal, gstBreakdown, d.gstType,
                                   d.manualGstAmount, d.manualSgstPercentage,
                                   d.manualCgstPercentage, d.manualIgstPercentage)

\* C12 witness: a successful update whose payload carries a total, a
\* subTotal and a gstBreakdown that are not the document's.
C12_Witness ==
  /\ qlast.op = "update"
  /\ qlast.status = 200
  /\ {"subTotal", "gstBreakdown", "total"} \subseteq qlast.payload.keys
  /\ quotations[qlast.id].total # qlast.payload.total
  /\ quotations[qlast.id].subTotal # qlast.payload.subTotal
  /\ quotations[qlast.id].gstBreakdown # qlast.payload.gstBreakdown

\* the number a text ends with after its last '-', NaN when that part is
\* empty or holds anything but digits
numericSuffix(number) ==
  LET suffix == lastSegment(number)
  IN IF suffix # << >> /\ \A i \in 1..Len(suffix) : isDigit(suffix[i])
     THEN parseDigits(suffix, 0)
     ELSE NaN

\* C17: a successful create without a caller-supplied number stores
\* 'Q-00001' when no quotation exists, and otherwise 'Q-' followed by the
\* numeric suffix of the most recently created quotation's number plus one,
\* zero-padded to 5 digits; a caller-supplied number is stored verbatim.
C17_NumberAssigned ==
  (qlast.op = "create" /\ qlast.status = 201) =>
    LET number == quotations[qlast.id].quotationNumber
    IN IF qlast.payload.quotationNumber # NoNumber
       THEN number = qlast.payload.quotationNumber
       ELSE IF ~qlast.lastExisted
       THEN number = Q00001
       ELSE /\ numericSuffix(qlast.lastNumber) # NaN
            /\ number = <<"Q", "-">>
                        \o padStart(toString(numericSuffix(qlast.lastNumber) + 1), 5, "0")

\* C18: over creates and deletes run one at a time the auto-generated
\* numbers are strictly increasing in creation order: the numeric suffix of
\* each is greater than that of every one generated before it.
C18_AutoNumbersIncrease ==
  \A i, j \in DOMAIN generated :
    i < j => /\ numericSuffix(generated[i]) # NaN
             /\ numericSuffix(generated[j]) # NaN
             /\ numericSuffix(generated[i]) < numericSuffix(generated[j])

\* C19: two create requests without a caller-supplied number that have both
\* read the same last quotation, neither having inserted yet, have computed
\* the same quotation number.
C19_RaceSameNumber ==
  \A p, q \in DOMAIN inflight :
    (inflight[p].auto /\ inflight[q].auto /\ inflight[p].seen = inflight[q].seen)
      => inflight[p].doc.quotationNumber = inflight[q].doc.quotationNumber

\* C19 witness: two requests in flight have read the same existing
\* quotation and hold the same generated number.
C19_Witness ==
  \E p, q \in DOMAIN inflight :
    /\ p # q
    /\ inflight[p].auto
    /\ inflight[q].auto
    /\ inflight[p].seen # NULL
    /\ inflight[p].seen = inflight[q].seen
    /\ inflight[p].doc.quotationNumber = inflight[q].doc.quotationNumber

\* C20: a successful update, whatever its payload holds for notes, leaves
\* the notes stored before it as a prefix of the notes stored after it, and
\* what follows the prefix is notes of the payload.
C20_NotesAppendOnly ==
  [][ (qrequests' # qrequests /\ qlast'.op = "update" /\ qlast'.status = 200) =>
        LET before == quotations[qlast'.id].notes
            after == quotations'[qlast'.id].notes
        IN /\ Len(before) <= Len(after)
           /\ SubSeq(after, 1, Len(before)) = before
           /\ \A k \in (Len(before) + 1)..Len(after) :
                \E i \in 1..Len(qlast'.payload.notes) : after[k] = qlast'.payload.notes[i] ]_vars

\* C20 witness: a successful update whose payload holds an empty notes
\* array, on a quotation that has notes.
C20_Witness ==
  /\ qlast.op = "update"
  /\ qlast.status = 200
  /\ "notes" \in qlast.payload.keys
  /\ qlast.payload.notesIsArray
  /\ qlast.payload.notes = << >>
  /\ Len(quotations[qlast.id].notes) > 0

\* C25: after any sequence of createTeam, updateTeam, deleteTeam and
\* transferUser requests run one at a time, no user is in the members list
\* of more than one team.
C25_MemberOfOneTeam ==
  \A u \in Users : \A t1, t2 \in DOMAIN teams :
    (u \in teams[t1].members /\ u \in teams[t2].members) => t1 = t2

\* C26: deleteTeam leaves alone every user whose team references a team
\* other than the deleted one: their team, department and zone are the same
\* after the delete as before.
C26_DeleteFrame ==
  [][ (requests' # requests /\ last'.op = "deleteTeam") =>
        \A u \in Users :
          (users[u].team # NULL /\ users[u].team # last'.id) => users'[u] = users[u] ]_vars

\* the transferUser request of process p has been answered 200
Transferred(p) == transfers[p].pc = "done" /\ transfers[p].status = 200

\* C24: two transferUser requests for the same user to different teams,
\* each having read the user before the other wrote it, can both complete
\* and then leave the user in the members of a team that the user's team
\* does not reference.
C24_InterleavedTransfersStrand ==
  \A p, q \in DOMAIN transfers :
    ( /\ Transferred(p)
      /\ Transferred(q)
      /\ transfers[p].userId = transfers[q].userId
      /\ transfers[p].newTeamId # NULL
      /\ transfers[q].newTeamId # NULL
      /\ transfers[p].newTeamId # transfers[q].newTeamId
      /\ transfers[p].originalTeamId = transfers[q].originalTeamId
      /\ transfers[p].originalTeamId \notin {transfers[p].newTeamId, transfers[q].newTeamId} )
    => \E t \in DOMAIN teams :
         /\ transfers[p].userId \in teams[t].members
         /\ users[transfers[p].userId].team # t

\* C24 witness: both requests have completed, the user is a member of both
\* target teams and the user's team references the second one only.
C24_Witness ==
  /\ DOMAIN transfers = TransferProcs
  /\ Transferred(1)
  /\ Transferred(2)
  /\ transfers[1].userId = transfers[2].userId
  /\ transfers[1].newTeamId # NULL
  /\ transfers[2].newTeamId # NULL
  /\ transfers[1].newTeamId # transfers[2].newTeamId
  /\ transfers[1].userId \in teams[transfers[1].newTeamId].members
  /\ transfers[1].userId \in teams[transfers[2].newTeamId].members
  /\ users[transfers[1].userId].team = transfers[2].newTeamId

\* the flag as a reader of the stored document finds it
isCustomer(account) == "isCustomer" \in DOMAIN account /\ account.isCustomer

\* C22: after any sequence of account creates, updates (also those whose
\* payload has no status) and soft deletes, every stored account has
\* isCustomer = true exactly when its stored status is 'Customer'.
C22_IsCustomerDerived ==
  \A a \in DOMAIN accounts : isCustomer(accounts[a]) <=> accounts[a].status = "Customer"

\* two names are equal when letter case is ignored
equalIgnoringCase(n, m) ==
  Len(n) = Len(m) /\ \A i \in 1..Len(n) : toLowerCase(n[i]) = toLowerCase(m[i])

\* C23: after any sequence of account creates and updates no two stored
\* accounts have names that are equal ignoring letter case, and a create
\* whose name differs only in case from a stored one is answered 409 and
\* stores no new account.
C23_NameUniqueIgnoringCase ==
  /\ \A a, b \in DOMAIN accounts :
       equalIgnoringCase(accounts[a].businessName, accounts[b].businessName) => a = b
  /\ ( /\ alast.op = "createAccount"
       /\ \E n \in alast.before : equalIgnoringCase(n, alast.payload.businessName) )
     => (alast.status = 409 /\ nextAid = alast.nextAid)

\* the position the index names when it is the decimal text of one that
\* holds an element of the sequence, and -1 otherwise
position(followUps, index) ==
  LET i == CASE index = "0" -> 0
             [] index = "1" -> 1
             [] index = "2" -> 2
             [] OTHER -> -1
  IN IF i >= 0 /\ i < Len(followUps) THEN i ELSE -1

\* what C21 asks of the follow-up request logged last on a collection
FollowUpOutcome(log, store) ==
  log.op \in {"updateFollowUp", "deleteFollowUp"} =>
    LET now == IF log.id \in DOMAIN store THEN store[log.id].followUps ELSE << >>
        k == IF log.found THEN position(log.before, log.index) ELSE -1
    IN IF k = -1
       THEN log.status = 404 /\ now = log.before
       ELSE log.op = "deleteFollowUp" =>
              /\ log.status = 200
              /\ now = SubSeq(log.before, 1, k) \o SubSeq(log.before, k + 2, Len(log.before))

\* C21: a follow-up update or delete, on a quotation or on a business
\* account, whose index is not a position that holds an element is answered
\* 404 and leaves the follow-ups as they were; a delete at a position that
\* holds one removes that element and keeps the others in order.
C21_FollowUpIndex ==
  /\ FollowUpOutcome(qlast, quotations)
  /\ FollowUpOutcome(alast, accounts)
====
